---- MODULE Spec2Model ----
(***************************************************************************)
(* A model of the upload_document server (server/index.mjs): the sign-in   *)
(* proxy and the upload endpoint's two-phase write (blob store, then       *)
(* metadata table), together with the stores they call.                    *)
(*                                                                         *)
(* Strings are sequences: a filename, an identifier or a storage key is a  *)
(* sequence of one-character strings (UTF-16 code units); a message is a   *)
(* sequence of words.  null and undefined are the two sequences Null and   *)
(* Undefined, whose single element is no character and no word.            *)
(***************************************************************************)
EXTENDS Integers, Sequences, FiniteSets

VARIABLES
    cfg,        \* process-wide configuration, fixed at startup
    table,      \* the metadata store: the columns of Organization_Documents, or NoTable
    blobs,      \* the blob store: the objects written so far
    rows,       \* the metadata store: the rows of Organization_Documents
    pc,         \* per request slot: where its handler is
    req,        \* per request slot: the request being handled
    local,      \* per request slot: the handler's local variables
    ret,        \* per request slot: the result of the awaited store call
    calls,      \* per request slot: the store calls the handler has issued
    resp,       \* per request slot: the response sent
    sreq,       \* sign-in: the request body
    spc,        \* sign-in: where the handler is
    sret,       \* sign-in: the result of the awaited call
    slocal,     \* sign-in: the handler's local variables
    scalls,     \* sign-in: the calls issued to the identity provider / UserProfiles
    sresp,      \* sign-in: the response sent
    session,    \* browser: sessionStorage's upload_session
    ui,         \* browser: the uploader's React state (file, uploading, error, result)
    cpc,        \* browser: where onUpload is
    sent,       \* browser: the request slot of the fetch in flight (0: none)
    fetched     \* browser: the Response of the fetch and what was read from it

uploadVars == <<cfg, table, blobs, rows, pc, req, local, ret, calls, resp>>
signinVars == <<sreq, spc, sret, slocal, scalls, sresp>>
clientVars == <<session, ui, cpc, sent, fetched>>
vars == <<cfg, table, blobs, rows, pc, req, local, ret, calls, resp,
          sreq, spc, sret, slocal, scalls, sresp,
          session, ui, cpc, sent, fetched>>

----------------------------------------------------------------------------
(* JavaScript values *)

Null == <<"null">>
Undefined == <<"undefined">>

\* JS truthiness of a string-or-null-or-undefined value
Truthy(v) == v # Null /\ v # Undefined /\ v # <<>>

\* a || b
Or(a, b) == IF Truthy(a) THEN a ELSE b

\* String.prototype.includes
Includes(s, sub) ==
    \E i \in 1..(Len(s) - Len(sub) + 1) : SubSeq(s, i, i + Len(sub) - 1) = sub

----------------------------------------------------------------------------
(* Storage key derivation *)

Lower == {"a","b","c","d","e","f","g","h","i","j","k","l","m",
          "n","o","p","q","r","s","t","u","v","w","x","y","z"}
Upper == {"A","B","C","D","E","F","G","H","I","J","K","L","M",
          "N","O","P","Q","R","S","T","U","V","W","X","Y","Z"}
Digit == {"0","1","2","3","4","5","6","7","8","9"}

\* the character class [a-zA-Z0-9._-]
SafeChars == Lower \cup Upper \cup Digit \cup {".", "_", "-"}

\* the replacement without the g flag: only the first match is replaced
SafeNameFirstOnly(name) ==
    [i \in 1..Len(name) |->
        IF name[i] \notin SafeChars /\ \A j \in 1..(i-1) : name[j] \in SafeChars
        THEN "_" ELSE name[i]]

\* file.originalname.replace(/[^a-zA-Z0-9._-]/g, '_')
SafeName(name) ==
    [i \in 1..Len(name) |-> IF name[i] \in SafeChars THEN name[i] ELSE "_"]

OrgsPrefix == <<"o","r","g","s","/">>
UploadsPrefix == <<"u","p","l","o","a","d","s","/">>

\* the key without the test of orgId: `orgs/${orgId}/${docId}_${safeName}`
StoragePathAlwaysOrgs(orgId, id, safeName) ==
    OrgsPrefix \o (IF orgId = Null THEN <<"n","u","l","l">> ELSE orgId)
        \o <<"/">> \o id \o <<"_">> \o safeName

\* the key without the generated identifier
StoragePathWithoutId(orgId, id, safeName) ==
    IF Truthy(orgId)
    THEN OrgsPrefix \o orgId \o <<"/">> \o safeName
    ELSE UploadsPrefix \o safeName

\* orgId ? `orgs/${orgId}/${docId}_${safeName}` : `uploads/${docId}_${safeName}`
StoragePath(orgId, id, safeName) ==
    IF Truthy(orgId)
    THEN OrgsPrefix \o orgId \o <<"/">> \o id \o <<"_">> \o safeName
    ELSE UploadsPrefix \o id \o <<"_">> \o safeName

----------------------------------------------------------------------------
(* Process-wide configuration (environment), read once at startup *)

Unset == <<>>

\* SUPABASE_URL / SUPABASE_KEY are the values after the `|| ..._DEV || ''` fallbacks
EnvValues == {Unset, <<"x">>}
BucketEnvs ==
    { [SUPABASE_UPLOAD_BUCKET |-> Undefined, SUPABASE_BUCKET |-> Undefined],
      [SUPABASE_UPLOAD_BUCKET |-> Undefined, SUPABASE_BUCKET |-> <<"b">>],
      [SUPABASE_UPLOAD_BUCKET |-> <<"u","b">>, SUPABASE_BUCKET |-> <<"b">>] }

\* process.env.MAX_FILE_SIZE_BYTES: not set, empty, or a decimal number
CustomLimit == <<"2", "0", "4", "8">>
LimitEnvs == { Undefined, <<>>, CustomLimit }

\* a configuration without MAX_FILE_SIZE_BYTES
Config(url, key, upUrl, upKey, b) ==
    [ SUPABASE_URL |-> url, SUPABASE_KEY |-> key,
      SUPABASE_UPLOAD_URL |-> upUrl, SUPABASE_UPLOAD_KEY |-> upKey,
      SUPABASE_UPLOAD_BUCKET |-> b.SUPABASE_UPLOAD_BUCKET,
      SUPABASE_BUCKET |-> b.SUPABASE_BUCKET,
      MAX_FILE_SIZE_BYTES |-> Undefined ]

\* every configuration
AllConfigs ==
    { [Config(url, key, upUrl, upKey, b) EXCEPT !.MAX_FILE_SIZE_BYTES = limit] :
        url \in EnvValues, key \in EnvValues,
        upUrl \in EnvValues, upKey \in EnvValues, b \in BucketEnvs, limit \in LimitEnvs }

\* the configurations two concurrent requests run under: the primary
\* project alone, a separate upload project with its own bucket, and no key
Configs ==
    { c \in AllConfigs :
        \/ /\ c.SUPABASE_URL # Unset /\ c.SUPABASE_KEY # Unset
           /\ c.SUPABASE_UPLOAD_URL = Unset /\ c.SUPABASE_UPLOAD_KEY = Unset
           /\ c.SUPABASE_BUCKET = Undefined
           /\ c.MAX_FILE_SIZE_BYTES = Undefined
        \/ /\ c.SUPABASE_URL # Unset /\ c.SUPABASE_KEY # Unset
           /\ c.SUPABASE_UPLOAD_URL # Unset /\ c.SUPABASE_UPLOAD_KEY # Unset
           /\ c.SUPABASE_UPLOAD_BUCKET # Undefined
           /\ c.MAX_FILE_SIZE_BYTES = CustomLimit
        \/ /\ c.SUPABASE_URL # Unset /\ c.SUPABASE_KEY = Unset
           /\ c.SUPABASE_UPLOAD_URL # Unset /\ c.SUPABASE_UPLOAD_KEY # Unset
           /\ c.SUPABASE_UPLOAD_BUCKET # Undefined
           /\ c.MAX_FILE_SIZE_BYTES = Undefined }

\* 50 * 1024 * 1024
DefaultFileSizeLimit == 50 * 1024 * 1024

\* Number() of a string of decimal digits
RECURSIVE NumberOf(_)
NumberOf(str) ==
    IF str = <<>> THEN 0
    ELSE 10 * NumberOf(SubSeq(str, 1, Len(str) - 1))
            + (CHOOSE d \in 0..9 : <<"0","1","2","3","4","5","6","7","8","9">>[d + 1] = str[Len(str)])

\* the limit without the environment: Number(50 * 1024 * 1024)
FileSizeLimitIgnoringEnv(c) == DefaultFileSizeLimit

\* multer limits.fileSize: Number(process.env.MAX_FILE_SIZE_BYTES || 50 * 1024 * 1024)
FileSizeLimit(c) ==
    IF Truthy(c.MAX_FILE_SIZE_BYTES) THEN NumberOf(c.MAX_FILE_SIZE_BYTES)
    ELSE DefaultFileSizeLimit

\* the project storageClient talks to
StorageClient(c) ==
    IF Truthy(c.SUPABASE_UPLOAD_URL) /\ Truthy(c.SUPABASE_UPLOAD_KEY)
    THEN "upload" ELSE "primary"

DefaultBucket ==
    <<"o","r","g","a","n","i","z","a","t","i","o","n","-",
      "d","o","c","u","m","e","n","t","s">>

\* process.env.SUPABASE_UPLOAD_BUCKET || process.env.SUPABASE_BUCKET || 'organization-documents'
Bucket(c) == Or(c.SUPABASE_UPLOAD_BUCKET, Or(c.SUPABASE_BUCKET, DefaultBucket))

----------------------------------------------------------------------------
(* The metadata table *)

TableName == "Organization_Documents"

\* create table public."Organization_Documents" ( ... )
SchemaColumns ==
    { "document_id", "user_id", "org_id", "filename", "storage_path", "bucket",
      "content_type", "size_bytes", "description", "created_at" }

NoTable == {}

\* the tables the upload project may hold: none, the one the repository's SQL
\* creates, or one an operator created with an uploaded_at column as well
Tables == { NoTable, SchemaColumns, SchemaColumns \cup {"uploaded_at"} }

----------------------------------------------------------------------------
(* Messages *)

MsgFileRequired == <<"file", "is", "required">>
MsgNotConfigured == <<"server", "not", "configured", "for", "uploads">>
MsgTableHint ==
    <<"Database", "table", "Organization_Documents", "not", "found", "in", "upload",
      "project.", "Run", "upload_document/setup/create_document_manager_table.sql",
      "in", "your", "upload", "Supabase", "project", "SQL", "editor.">>
MsgPersistPrefix == <<"uploaded", "but", "failed", "to", "persist", "metadata:">>
TableNotFoundNeedle == <<"Could", "not", "find", "the", "table">>

\* what the stores answer
MsgExists == <<"The", "resource", "already", "exists">>
MsgBucketNotFound == <<"Bucket", "not", "found">>
MsgNoTable ==
    <<"Could", "not", "find", "the", "table", "'public.Organization_Documents'",
      "in", "the", "schema", "cache">>
MsgNoColumn(c) ==
    <<"Could", "not", "find", "the", c, "column", "of", "'Organization_Documents'",
      "in", "the", "schema", "cache">>
MsgDuplicate == <<"duplicate", "key", "value", "violates", "unique", "constraint">>
MsgDenied == <<"permission", "denied">>
MsgFetchFailed == <<"fetch", "failed">>

\* Error.prototype.toString: name, or name ": " message
ErrorString(name, message) == IF message = <<>> THEN <<name>> ELSE <<name, ":">> \o message

\* a store call's result: { data, error } = await ..., or an exception thrown;
\* string is what String() makes of the error
Ok == [kind |-> "ok", message |-> <<>>, string |-> <<>>]
Err(name, message) ==
    [kind |-> "error", message |-> message, string |-> ErrorString(name, message)]
\* an error that is a plain object: String() of it is '[object Object]'
ErrObject(message) ==
    [kind |-> "error", message |-> message, string |-> <<"[object", "Object]">>]
Thrown(name, message) ==
    [kind |-> "throw", message |-> message, string |-> ErrorString(name, message)]
NoRet == [kind |-> "none", message |-> <<>>, string |-> <<>>]

\* String(err)
StringOf(e) == e.string

\* error.message || String(error)
MessageOf(e) == Or(e.message, StringOf(e))

----------------------------------------------------------------------------
(* Upload requests *)

Slots == {1, 2}

NoFile == [present |-> FALSE, originalname |-> Undefined, mimetype |-> Undefined, size |-> 0]
File(name, size) ==
    [present |-> TRUE, originalname |-> name, mimetype |-> <<"application/pdf">>, size |-> size]

Body(user, org, desc) == [user_id |-> user, org_id |-> org, description |-> desc]

FileName == <<"a", " ", "(", "1", ")", ".", "p">>
BigFile == File(<<"b", "i", "g">>, DefaultFileSizeLimit + 1)

OrgId == <<"o", "r", "g", "-", "1">>
UserId == <<"u", "-", "7">>
Description == <<"n", "o", "t", "e">>

Bodies ==
    { Body(Undefined, Undefined, Undefined),
      Body(Undefined, <<>>, Undefined),
      Body(Undefined, OrgId, Description),
      Body(UserId, OrgId, Undefined) }

\* a request without an Authorization header
Request(f, b) == [file |-> f, body |-> b, authorization |-> Undefined]

\* the requests two concurrent handlers receive
Requests ==
    { Request(f, b) : f \in {NoFile, File(FileName, 1024)}, b \in Bodies }
        \cup { Request(BigFile, Body(UserId, OrgId, Undefined)) }

NoRequest == Request(NoFile, Body(Undefined, Undefined, Undefined))

DigitAt(k) == <<"1", "2", "3", "4", "5", "6", "7", "8", "9">>[k]

\* the identifiers uuidv4() may return
NumUuids == 2
Uuids == { <<"i", "d", "-", d>> : d \in { DigitAt(k) : k \in 1..NumUuids } }

\* new Date().toISOString()
Times == { <<"2", "0", "2", "5", "-", "0", "1", "-", "0", "1", "T", "0", "0", ":", "0", "0", "Z">> }

NoLocal ==
    [ userId |-> Undefined, orgId |-> Undefined, description |-> Undefined,
      bucket |-> Undefined, docId |-> Undefined, safeName |-> Undefined,
      storagePath |-> Undefined ]

\* res.status(n).json({ error }) and res.json({ success: true, ... })
NoResponse ==
    [ status |-> 0, type |-> "none", error |-> Undefined, success |-> FALSE,
      document_id |-> Undefined, storage_path |-> Undefined, bucket |-> Undefined ]
JsonError(status, msg) == [NoResponse EXCEPT !.status = status, !.type = "json", !.error = msg]
JsonUploaded(id, path, bucket) ==
    [ status |-> 200, type |-> "json", error |-> Undefined, success |-> TRUE,
      document_id |-> id, storage_path |-> path, bucket |-> bucket ]
\* Express's default error handler: err.status || 500, an HTML page
DefaultErrorPage == [NoResponse EXCEPT !.status = 500, !.type = "html"]

----------------------------------------------------------------------------
(* The store calls *)

\* storageClient.storage.from(bucket).upload(storagePath, file.buffer, { contentType, upsert: false })
UploadCall(c, l, file) ==
    [ op |-> "upload", client |-> StorageClient(c), bucket |-> l.bucket,
      key |-> l.storagePath, contentType |-> file.mimetype, size |-> file.size,
      upsert |-> FALSE, result |-> NoRet ]

\* documentRow with the sanitized name where the storage key belongs
DocumentRowNameAsPath(l, file, now) ==
    [ document_id |-> l.docId,
      user_id |-> l.userId,
      org_id |-> l.orgId,
      filename |-> file.originalname,
      storage_path |-> l.safeName,
      bucket |-> l.bucket,
      content_type |-> file.mimetype,
      size_bytes |-> file.size,
      description |-> l.description,
      uploaded_at |-> now ]

\* const documentRow = { ... }
DocumentRow(l, file, now) ==
    [ document_id |-> l.docId,
      user_id |-> l.userId,
      org_id |-> l.orgId,
      filename |-> file.originalname,
      storage_path |-> l.storagePath,
      bucket |-> l.bucket,
      content_type |-> file.mimetype,
      size_bytes |-> file.size,
      description |-> l.description,
      uploaded_at |-> now ]

\* storageClient.from('Organization_Documents').insert([documentRow])
InsertCall(c, row) ==
    [ op |-> "insert", client |-> StorageClient(c), table |-> TableName, row |-> row,
      result |-> NoRet ]

Blob(call) ==
    [ bucket |-> call.bucket, key |-> call.key, contentType |-> call.contentType,
      size |-> call.size ]

BlobExists(bucket, key) == \E b \in blobs : b.bucket = bucket /\ b.key = key

\* what the blob store may answer to an upload (an error may come without a
\* message); an existing key is refused unless the call asks for upsert
UploadResults(call) ==
    { Err("StorageApiError", MsgBucketNotFound), Err("StorageUnknownError", <<>>),
      Thrown("TypeError", MsgFetchFailed) }
    \cup (IF BlobExists(call.bucket, call.key) /\ ~call.upsert
          THEN { Err("StorageApiError", MsgExists) }
          ELSE { Ok })

\* what the metadata store may answer to an insert: the table must exist, hold
\* every column of the row, and hold no row with the same primary key
InsertResults(call) ==
    { Err("PostgrestError", MsgDenied), ErrObject(<<>>), Thrown("TypeError", MsgFetchFailed) }
    \cup (IF table = NoTable
          THEN { Err("PostgrestError", MsgNoTable) }
          ELSE IF ~(DOMAIN call.row \subseteq table)
          THEN { Err("PostgrestError",
                     MsgNoColumn(CHOOSE col \in DOMAIN call.row : col \notin table)) }
          ELSE IF \E r \in rows : r.document_id = call.row.document_id
          THEN { Err("PostgrestError", MsgDuplicate) }
          ELSE { Ok })

----------------------------------------------------------------------------
(* POST /api/organizations/me/documents *)

Respond(s, r) ==
    /\ resp' = [resp EXCEPT ![s] = r]
    /\ pc' = [pc EXCEPT ![s] = "done"]

\* a request arrives
Receive(s, r) ==
    /\ pc[s] = "idle"
    /\ pc' = [pc EXCEPT ![s] = "received"]
    /\ req' = [req EXCEPT ![s] = r]
    /\ UNCHANGED <<cfg, table, blobs, rows, local, ret, calls, resp>>
    /\ UNCHANGED <<signinVars, clientVars>>

\* HandleUpload with the configuration test moved ahead of the file test
HandleUploadConfigFirst(s) ==
    /\ pc[s] = "received"
    /\ LET file == req[s].file
           body == req[s].body
       IN IF file.present /\ file.size > FileSizeLimit(cfg)
          THEN /\ Respond(s, DefaultErrorPage)
               /\ UNCHANGED <<local, calls>>
          ELSE IF ~Truthy(cfg.SUPABASE_URL) \/ ~Truthy(cfg.SUPABASE_KEY)
          THEN /\ Respond(s, JsonError(500, MsgNotConfigured))
               /\ UNCHANGED <<local, calls>>
          ELSE IF ~file.present
          THEN /\ Respond(s, JsonError(400, MsgFileRequired))
               /\ UNCHANGED <<local, calls>>
          ELSE \E id \in Uuids :
               LET userId == Or(body.user_id, Null)
                   orgId == Or(body.org_id, Null)
                   description == Or(body.description, Null)
                   safeName == SafeName(file.originalname)
                   l == [ userId |-> userId, orgId |-> orgId, description |-> description,
                          bucket |-> Bucket(cfg), docId |-> id, safeName |-> safeName,
                          storagePath |-> StoragePath(orgId, id, safeName) ]
               IN /\ local' = [local EXCEPT ![s] = l]
                  /\ calls' = [calls EXCEPT ![s] = Append(@, UploadCall(cfg, l, file))]
                  /\ pc' = [pc EXCEPT ![s] = "awaitUpload"]
                  /\ UNCHANGED resp
    /\ UNCHANGED <<cfg, table, blobs, rows, req, ret>>
    /\ UNCHANGED <<signinVars, clientVars>>

\* HandleUpload refusing a request without an Authorization header
HandleUploadRequiringAuth(s) ==
    /\ pc[s] = "received"
    /\ LET file == req[s].file
           body == req[s].body
       IN IF file.present /\ file.size > FileSizeLimit(cfg)
          THEN /\ Respond(s, DefaultErrorPage)
               /\ UNCHANGED <<local, calls>>
          ELSE IF ~Truthy(req[s].authorization)
          THEN /\ Respond(s, JsonError(401, <<"unauthorized">>))
               /\ UNCHANGED <<local, calls>>
          ELSE IF ~file.present
          THEN /\ Respond(s, JsonError(400, MsgFileRequired))
               /\ UNCHANGED <<local, calls>>
          ELSE IF ~Truthy(cfg.SUPABASE_URL) \/ ~Truthy(cfg.SUPABASE_KEY)
          THEN /\ Respond(s, JsonError(500, MsgNotConfigured))
               /\ UNCHANGED <<local, calls>>
          ELSE \E id \in Uuids :
               LET userId == Or(body.user_id, Null)
                   orgId == Or(body.org_id, Null)
                   description == Or(body.description, Null)
                   safeName == SafeName(file.originalname)
                   l == [ userId |-> userId, orgId |-> orgId, description |-> description,
                          bucket |-> Bucket(cfg), docId |-> id, safeName |-> safeName,
                          storagePath |-> StoragePath(orgId, id, safeName) ]
               IN /\ local' = [local EXCEPT ![s] = l]
                  /\ calls' = [calls EXCEPT ![s] = Append(@, UploadCall(cfg, l, file))]
                  /\ pc' = [pc EXCEPT ![s] = "awaitUpload"]
                  /\ UNCHANGED resp
    /\ UNCHANGED <<cfg, table, blobs, rows, req, ret>>
    /\ UNCHANGED <<signinVars, clientVars>>

\* upload.single('file'), then the handler up to the await of the blob write
HandleUpload(s) ==
    /\ pc[s] = "received"
    /\ LET file == req[s].file
           body == req[s].body
       IN IF file.present /\ file.size > FileSizeLimit(cfg)
          THEN \* multer: next(new MulterError('LIMIT_FILE_SIZE')); no error middleware
               /\ Respond(s, DefaultErrorPage)
               /\ UNCHANGED <<local, calls>>
          ELSE IF ~file.present
          THEN /\ Respond(s, JsonError(400, MsgFileRequired))
               /\ UNCHANGED <<local, calls>>
          ELSE IF ~Truthy(cfg.SUPABASE_URL) \/ ~Truthy(cfg.SUPABASE_KEY)
          THEN /\ Respond(s, JsonError(500, MsgNotConfigured))
               /\ local' = [local EXCEPT ![s] =
                              [NoLocal EXCEPT !.userId = Or(body.user_id, Null),
                                              !.orgId = Or(body.org_id, Null),
                                              !.description = Or(body.description, Null)]]
               /\ UNCHANGED calls
          ELSE \E id \in Uuids :
               LET userId == Or(body.user_id, Null)
                   orgId == Or(body.org_id, Null)
                   description == Or(body.description, Null)
                   safeName == SafeName(file.originalname)
                   l == [ userId |-> userId, orgId |-> orgId, description |-> description,
                          bucket |-> Bucket(cfg), docId |-> id, safeName |-> safeName,
                          storagePath |-> StoragePath(orgId, id, safeName) ]
               IN /\ local' = [local EXCEPT ![s] = l]
                  /\ calls' = [calls EXCEPT ![s] = Append(@, UploadCall(cfg, l, file))]
                  /\ pc' = [pc EXCEPT ![s] = "awaitUpload"]
                  /\ UNCHANGED resp
    /\ UNCHANGED <<cfg, table, blobs, rows, req, ret>>
    /\ UNCHANGED <<signinVars, clientVars>>

\* the blob store serves the upload call
StorageUpload(s) ==
    /\ pc[s] = "awaitUpload"
    /\ LET call == calls[s][Len(calls[s])]
       IN \E r \in UploadResults(call) :
            /\ ret' = [ret EXCEPT ![s] = r]
            /\ calls' = [calls EXCEPT ![s][Len(calls[s])].result = r]
            /\ blobs' = IF r.kind = "ok"
                        THEN { b \in blobs : ~(b.bucket = call.bucket /\ b.key = call.key) }
                                \cup { Blob(call) }
                        ELSE blobs
    /\ pc' = [pc EXCEPT ![s] = "uploadReturned"]
    /\ UNCHANGED <<cfg, table, rows, req, local, resp>>
    /\ UNCHANGED <<signinVars, clientVars>>

\* AfterUpload without its `if (uploadError) return`: the insert is issued
\* whatever the blob store answered
AfterUploadIgnoringError(s) ==
    /\ pc[s] = "uploadReturned"
    /\ IF ret[s].kind = "throw"
       THEN /\ Respond(s, JsonError(500, StringOf(ret[s])))
            /\ UNCHANGED calls
       ELSE \E now \in Times :
            /\ calls' = [calls EXCEPT ![s] =
                           Append(@, InsertCall(cfg, DocumentRow(local[s], req[s].file, now)))]
            /\ pc' = [pc EXCEPT ![s] = "awaitInsert"]
            /\ UNCHANGED resp
    /\ ret' = [ret EXCEPT ![s] = NoRet]
    /\ UNCHANGED <<cfg, table, blobs, rows, req, local>>
    /\ UNCHANGED <<signinVars, clientVars>>

\* AfterUpload answering a blob-store error with a message of its own
AfterUploadGenericMessage(s) ==
    /\ pc[s] = "uploadReturned"
    /\ IF ret[s].kind = "throw"
       THEN /\ Respond(s, JsonError(500, StringOf(ret[s])))
            /\ UNCHANGED calls
       ELSE IF ret[s].kind = "error"
       THEN /\ Respond(s, JsonError(500, <<"upload", "failed">>))
            /\ UNCHANGED calls
       ELSE \E now \in Times :
            /\ calls' = [calls EXCEPT ![s] =
                           Append(@, InsertCall(cfg, DocumentRow(local[s], req[s].file, now)))]
            /\ pc' = [pc EXCEPT ![s] = "awaitInsert"]
            /\ UNCHANGED resp
    /\ ret' = [ret EXCEPT ![s] = NoRet]
    /\ UNCHANGED <<cfg, table, blobs, rows, req, local>>
    /\ UNCHANGED <<signinVars, clientVars>>

\* the handler from the blob write's result to the await of the insert
AfterUpload(s) ==
    /\ pc[s] = "uploadReturned"
    /\ IF ret[s].kind = "throw"
       THEN \* catch (err)
            /\ Respond(s, JsonError(500, StringOf(ret[s])))
            /\ UNCHANGED calls
       ELSE IF ret[s].kind = "error"
       THEN /\ Respond(s, JsonError(500, MessageOf(ret[s])))
            /\ UNCHANGED calls
       ELSE \E now \in Times :
            /\ calls' = [calls EXCEPT ![s] =
                           Append(@, InsertCall(cfg, DocumentRow(local[s], req[s].file, now)))]
            /\ pc' = [pc EXCEPT ![s] = "awaitInsert"]
            /\ UNCHANGED resp
    /\ ret' = [ret EXCEPT ![s] = NoRet]
    /\ UNCHANGED <<cfg, table, blobs, rows, req, local>>
    /\ UNCHANGED <<signinVars, clientVars>>

\* the metadata store serves the insert call
DbInsert(s) ==
    /\ pc[s] = "awaitInsert"
    /\ LET call == calls[s][Len(calls[s])]
       IN \E r \in InsertResults(call) :
            /\ ret' = [ret EXCEPT ![s] = r]
            /\ calls' = [calls EXCEPT ![s][Len(calls[s])].result = r]
            /\ rows' = IF r.kind = "ok" THEN rows \cup { call.row } ELSE rows
    /\ pc' = [pc EXCEPT ![s] = "insertReturned"]
    /\ UNCHANGED <<cfg, table, blobs, req, local, resp>>
    /\ UNCHANGED <<signinVars, clientVars>>

\* AfterInsert deleting the blob again when the insert failed
AfterInsertRollingBack(s) ==
    /\ pc[s] = "insertReturned"
    /\ IF ret[s].kind = "throw"
       THEN Respond(s, JsonError(500, StringOf(ret[s])))
       ELSE IF ret[s].kind = "error"
       THEN LET msg == IF Truthy(ret[s].message) /\ Includes(ret[s].message, TableNotFoundNeedle)
                       THEN MsgTableHint
                       ELSE MsgPersistPrefix \o MessageOf(ret[s])
            IN Respond(s, JsonError(500, msg))
       ELSE Respond(s, JsonUploaded(local[s].docId, local[s].storagePath, local[s].bucket))
    /\ blobs' = IF ret[s].kind = "ok" THEN blobs
                ELSE { b \in blobs : ~(b.bucket = local[s].bucket /\ b.key = local[s].storagePath) }
    /\ ret' = [ret EXCEPT ![s] = NoRet]
    /\ UNCHANGED <<cfg, table, rows, req, local, calls>>
    /\ UNCHANGED <<signinVars, clientVars>>

\* AfterInsert without the table-not-found hint
AfterInsertNoHint(s) ==
    /\ pc[s] = "insertReturned"
    /\ IF ret[s].kind = "throw"
       THEN Respond(s, JsonError(500, StringOf(ret[s])))
       ELSE IF ret[s].kind = "error"
       THEN Respond(s, JsonError(500, MsgPersistPrefix \o MessageOf(ret[s])))
       ELSE Respond(s, JsonUploaded(local[s].docId, local[s].storagePath, local[s].bucket))
    /\ ret' = [ret EXCEPT ![s] = NoRet]
    /\ UNCHANGED <<cfg, table, blobs, rows, req, local, calls>>
    /\ UNCHANGED <<signinVars, clientVars>>

\* AfterInsert answering success whatever the insert returned
AfterInsertAlwaysSuccess(s) ==
    /\ pc[s] = "insertReturned"
    /\ IF ret[s].kind = "throw"
       THEN Respond(s, JsonError(500, StringOf(ret[s])))
       ELSE Respond(s, JsonUploaded(local[s].docId, local[s].storagePath, local[s].bucket))
    /\ ret' = [ret EXCEPT ![s] = NoRet]
    /\ UNCHANGED <<cfg, table, blobs, rows, req, local, calls>>
    /\ UNCHANGED <<signinVars, clientVars>>

\* the handler from the insert's result to the response
AfterInsert(s) ==
    /\ pc[s] = "insertReturned"
    /\ IF ret[s].kind = "throw"
       THEN Respond(s, JsonError(500, StringOf(ret[s])))
       ELSE IF ret[s].kind = "error"
       THEN LET msg == IF Truthy(ret[s].message) /\ Includes(ret[s].message, TableNotFoundNeedle)
                       THEN MsgTableHint
                       ELSE MsgPersistPrefix \o MessageOf(ret[s])
            IN Respond(s, JsonError(500, msg))
       ELSE Respond(s, JsonUploaded(local[s].docId, local[s].storagePath, local[s].bucket))
    /\ ret' = [ret EXCEPT ![s] = NoRet]
    /\ UNCHANGED <<cfg, table, blobs, rows, req, local, calls>>
    /\ UNCHANGED <<signinVars, clientVars>>

InFlight == {"received", "awaitUpload", "uploadReturned", "awaitInsert", "insertReturned"}

\* the process stops: every request in flight is abandoned without a response
Crash ==
    /\ \E s \in Slots : pc[s] \in InFlight
    /\ pc' = [s \in Slots |-> IF pc[s] \in InFlight THEN "crashed" ELSE pc[s]]
    /\ ret' = [s \in Slots |-> NoRet]
    /\ UNCHANGED <<cfg, table, blobs, rows, req, local, calls, resp>>
    /\ UNCHANGED <<signinVars, clientVars>>

----------------------------------------------------------------------------
(* POST /api/signin *)

Credentials(email, password) == [email |-> email, password |-> password]

\* const { email, password } = req.body || {}
NoCredentials == Credentials(Undefined, Undefined)

Emails == { <<"a", "@", "x">>, <<"b", "@", "x">> }
Passwords == { <<"p", "w">> }

SigninBodies ==
    { Credentials(e, p) : e \in {Undefined, <<>>} \cup Emails,
                          p \in {Undefined, <<>>} \cup Passwords }

\* signInData.user, as the identity provider returns it
User(id, email, org) == [id |-> id, email |-> email, user_metadata |-> [org_id |-> org]]
NoUser == User(Undefined, Undefined, Undefined)
UserIds == { UserId }
\* the org_id of the user's row in UserProfiles
ProfileOrgId == <<"o", "r", "g", "-", "2">>

MsgCredentialsRequired == <<"email", "and", "password", "required">>
MsgInvalidLogin == <<"Invalid", "login", "credentials">>

NoSigninLocal == [user |-> NoUser, orgId |-> Undefined]

NoSigninResponse ==
    [ status |-> 0, type |-> "none", error |-> Undefined, success |-> FALSE,
      user |-> [id |-> Undefined, email |-> Undefined], org_id |-> Undefined ]
SigninError(status, msg) ==
    [NoSigninResponse EXCEPT !.status = status, !.type = "json", !.error = msg]
\* res.json({ success: true, user: { id: user.id, email: user.email }, org_id: orgId })
SignedIn(user, orgId) ==
    [ status |-> 200, type |-> "json", error |-> Undefined, success |-> TRUE,
      user |-> [id |-> user.id, email |-> user.email], org_id |-> orgId ]

\* the row maybeSingle() returns: null, or { org_id }
NoProfile == [found |-> FALSE, org_id |-> Undefined]
Profile(org) == [found |-> TRUE, org_id |-> org]

\* a call's result: { data, error }
Data(u, p) == [kind |-> "ok", message |-> <<>>, string |-> <<>>, user |-> u, profile |-> p]
Failed(r) ==
    [kind |-> r.kind, message |-> r.message, string |-> r.string,
     user |-> NoUser, profile |-> NoProfile]
NoSigninRet == Failed(NoRet)

\* supabase.auth.signInWithPassword({ email, password })
SignInCall(email, password) ==
    [ op |-> "signInWithPassword", table |-> "", columns |-> <<>>, limit |-> 0,
      email |-> email, password |-> password, id |-> Undefined, result |-> NoSigninRet ]

\* supabase.from('UserProfiles').select('org_id').eq('id', user.id).limit(1).maybeSingle()
ProfileCall(id) ==
    [ op |-> "select", table |-> "UserProfiles", columns |-> <<"org_id">>, limit |-> 1,
      email |-> Undefined, password |-> Undefined, id |-> id, result |-> NoSigninRet ]

\* what the identity provider may answer (an error may come without a message)
SignInResults(call) ==
    { Failed(Err("AuthApiError", MsgInvalidLogin)), Failed(Err("AuthUnknownError", <<>>)),
      Failed(Thrown("TypeError", MsgFetchFailed)) }
    \cup { Data(User(id, call.email, org), NoProfile) : id \in UserIds, org \in {Undefined, <<>>, OrgId} }

\* what the UserProfiles lookup may answer: an error, no row, or a row
ProfileResults(call) ==
    { Failed(Err("PostgrestError", MsgDenied)), Failed(Thrown("TypeError", MsgFetchFailed)),
      Data(NoUser, NoProfile), Data(NoUser, Profile(Null)), Data(NoUser, Profile(ProfileOrgId)) }

SigninRespond(r) ==
    /\ sresp' = r
    /\ spc' = "done"

SigninReceive(b) ==
    /\ spc = "idle"
    /\ spc' = "received"
    /\ sreq' = b
    /\ UNCHANGED <<sret, slocal, scalls, sresp>>
    /\ UNCHANGED <<uploadVars, clientVars>>

\* HandleSignin testing the email alone
HandleSigninEmailOnly ==
    /\ spc = "received"
    /\ IF ~Truthy(sreq.email)
       THEN /\ SigninRespond(SigninError(400, MsgCredentialsRequired))
            /\ UNCHANGED scalls
       ELSE /\ scalls' = Append(scalls, SignInCall(sreq.email, sreq.password))
            /\ spc' = "awaitSignIn"
            /\ UNCHANGED sresp
    /\ UNCHANGED <<sreq, sret, slocal>>
    /\ UNCHANGED <<uploadVars, clientVars>>

\* the handler up to the await of signInWithPassword
HandleSignin ==
    /\ spc = "received"
    /\ IF ~Truthy(sreq.email) \/ ~Truthy(sreq.password)
       THEN /\ SigninRespond(SigninError(400, MsgCredentialsRequired))
            /\ UNCHANGED scalls
       ELSE /\ scalls' = Append(scalls, SignInCall(sreq.email, sreq.password))
            /\ spc' = "awaitSignIn"
            /\ UNCHANGED sresp
    /\ UNCHANGED <<sreq, sret, slocal>>
    /\ UNCHANGED <<uploadVars, clientVars>>

\* the identity provider serves the call
SignInServe ==
    /\ spc = "awaitSignIn"
    /\ \E r \in SignInResults(scalls[Len(scalls)]) :
         /\ sret' = r
         /\ scalls' = [scalls EXCEPT ![Len(scalls)].result = r]
    /\ spc' = "signInReturned"
    /\ UNCHANGED <<sreq, slocal, sresp>>
    /\ UNCHANGED <<uploadVars, clientVars>>

\* AfterSignIn without its `if (signInError) return`
AfterSignInIgnoringError ==
    /\ spc = "signInReturned"
    /\ IF sret.kind = "throw"
       THEN /\ SigninRespond(SigninError(500, StringOf(sret)))
            /\ UNCHANGED <<slocal, scalls>>
       ELSE LET user == sret.user
                orgId == Or(user.user_metadata.org_id, Null)
            IN /\ slocal' = [user |-> user, orgId |-> orgId]
               /\ IF ~Truthy(orgId)
                  THEN /\ scalls' = Append(scalls, ProfileCall(user.id))
                       /\ spc' = "awaitProfile"
                       /\ UNCHANGED sresp
                  ELSE /\ SigninRespond(SignedIn(user, orgId))
                       /\ UNCHANGED scalls
    /\ sret' = NoSigninRet
    /\ UNCHANGED sreq
    /\ UNCHANGED <<uploadVars, clientVars>>

\* the handler from the sign-in result to the profile lookup or the response
AfterSignIn ==
    /\ spc = "signInReturned"
    /\ IF sret.kind = "throw"
       THEN /\ SigninRespond(SigninError(500, StringOf(sret)))
            /\ UNCHANGED <<slocal, scalls>>
       ELSE IF sret.kind = "error"
       THEN /\ SigninRespond(SigninError(401, MessageOf(sret)))
            /\ UNCHANGED <<slocal, scalls>>
       ELSE LET user == sret.user
                orgId == Or(user.user_metadata.org_id, Null)
            IN /\ slocal' = [user |-> user, orgId |-> orgId]
               /\ IF ~Truthy(orgId)
                  THEN /\ scalls' = Append(scalls, ProfileCall(user.id))
                       /\ spc' = "awaitProfile"
                       /\ UNCHANGED sresp
                  ELSE /\ SigninRespond(SignedIn(user, orgId))
                       /\ UNCHANGED scalls
    /\ sret' = NoSigninRet
    /\ UNCHANGED sreq
    /\ UNCHANGED <<uploadVars, clientVars>>

\* the UserProfiles table serves the lookup
ProfileServe ==
    /\ spc = "awaitProfile"
    /\ \E r \in ProfileResults(scalls[Len(scalls)]) :
         /\ sret' = r
         /\ scalls' = [scalls EXCEPT ![Len(scalls)].result = r]
    /\ spc' = "profileReturned"
    /\ UNCHANGED <<sreq, slocal, sresp>>
    /\ UNCHANGED <<uploadVars, clientVars>>

\* AfterProfile answering a failed lookup with an error
AfterProfileFailingOnError ==
    /\ spc = "profileReturned"
    /\ IF sret.kind = "throw"
       THEN /\ SigninRespond(SigninError(500, StringOf(sret)))
            /\ UNCHANGED slocal
       ELSE IF sret.kind = "error"
       THEN /\ SigninRespond(SigninError(500, MessageOf(sret)))
            /\ UNCHANGED slocal
       ELSE LET orgId == IF sret.profile.found /\ Truthy(sret.profile.org_id)
                         THEN sret.profile.org_id
                         ELSE slocal.orgId
            IN /\ slocal' = [slocal EXCEPT !.orgId = orgId]
               /\ SigninRespond(SignedIn(slocal.user, orgId))
    /\ sret' = NoSigninRet
    /\ UNCHANGED <<sreq, scalls>>
    /\ UNCHANGED <<uploadVars, clientVars>>

\* the handler from the lookup's result to the response
AfterProfile ==
    /\ spc = "profileReturned"
    /\ IF sret.kind = "throw"
       THEN /\ SigninRespond(SigninError(500, StringOf(sret)))
            /\ UNCHANGED slocal
       ELSE LET orgId == IF sret.kind = "error" THEN slocal.orgId
                         ELSE IF sret.profile.found /\ Truthy(sret.profile.org_id)
                         THEN sret.profile.org_id
                         ELSE slocal.orgId
            IN /\ slocal' = [slocal EXCEPT !.orgId = orgId]
               /\ SigninRespond(SignedIn(slocal.user, orgId))
    /\ sret' = NoSigninRet
    /\ UNCHANGED <<sreq, scalls>>
    /\ UNCHANGED <<uploadVars, clientVars>>

\* the next sign-in request: the handler keeps nothing between requests
SigninAgain ==
    /\ spc = "done"
    /\ spc' = "idle"
    /\ sreq' = NoCredentials
    /\ slocal' = NoSigninLocal
    /\ scalls' = <<>>
    /\ sresp' = NoSigninResponse
    /\ UNCHANGED sret
    /\ UNCHANGED <<uploadVars, clientVars>>

----------------------------------------------------------------------------
(* The browser uploader: OrganizationDocumentUploader *)

\* JSON.parse(sessionStorage.getItem('upload_session') || '{}'), or null
NoSession == [present |-> FALSE, access_token |-> Undefined, accessToken |-> Undefined]
Token == <<"t", "o", "k">>
Sessions ==
    { NoSession,
      [present |-> TRUE, access_token |-> Undefined, accessToken |-> Undefined],
      [present |-> TRUE, access_token |-> Token, accessToken |-> Undefined] }

\* storedSession?.access_token || storedSession?.accessToken || null
AccessToken(sess) ==
    IF sess.present THEN Or(sess.access_token, Or(sess.accessToken, Null)) ELSE Null

\* if (accessToken) headers['Authorization'] = `Bearer ${accessToken}`
AuthorizationHeader(sess) ==
    IF Truthy(AccessToken(sess))
    THEN <<"B", "e", "a", "r", "e", "r", " ">> \o AccessToken(sess)
    ELSE Undefined

UploaderDescription == <<"Uploaded", "from", "OrganizationDocumentUploader">>

\* the form with the organization of the stored session appended as org_id
FormRequestWithOrg(file, sess) ==
    [ file |-> file,
      body |-> Body(Undefined, IF sess.present THEN OrgId ELSE Undefined, UploaderDescription),
      authorization |-> AuthorizationHeader(sess) ]

\* the multipart form and the headers of the fetch: the parts file and description
FormRequest(file, sess) ==
    [ file |-> file, body |-> Body(Undefined, Undefined, UploaderDescription),
      authorization |-> AuthorizationHeader(sess) ]

\* the files the user may pick
ClientFiles == { File(FileName, 1024), BigFile }

\* a parsed JSON body (absent members are undefined), or null
NullData ==
    [ present |-> FALSE, error |-> Undefined, success |-> FALSE,
      document_id |-> Undefined, storage_path |-> Undefined, bucket |-> Undefined ]
\* JSON.parse(JSON.stringify(obj)) of the object the server passed to res.json
ParsedJson(r) ==
    [ present |-> TRUE, error |-> r.error, success |-> r.success,
      document_id |-> r.document_id, storage_path |-> r.storage_path, bucket |-> r.bucket ]

\* a response body on the wire
JsonBody(data) == [kind |-> "json", data |-> data, text |-> <<>>]
TextBody(text) == [kind |-> "text", data |-> NullData, text |-> text]

\* the page of Express's default error handler
ErrorPageText == <<"<pre>Internal", "Server", "Error</pre>">>

\* the Response object fetch() resolves with
Response(status, body) ==
    [ status |-> status, body |-> body, bodyUsed |-> FALSE, data |-> NullData, text |-> Null ]
NoFetched == Response(0, TextBody(<<>>))

\* the Response for what the server sent
HttpResponse(r) ==
    Response(r.status, IF r.type = "json" THEN JsonBody(ParsedJson(r)) ELSE TextBody(ErrorPageText))

\* responses of an intermediary: a page, and an empty body
GatewayResponses ==
    { Response(502, TextBody(<<"Bad", "Gateway">>)),
      Response(504, TextBody(<<>>)) }

\* resp.ok
ResponseOk(f) == f.status \in 200..299

\* data = await resp.json(): the body is consumed, then parsed
ReadJson(f) ==
    [f EXCEPT !.bodyUsed = TRUE,
              !.data = IF f.body.kind = "json" THEN f.body.data ELSE NullData]

\* text = await resp.text().catch(() => null): a consumed body rejects
ReadText(f) ==
    IF f.bodyUsed THEN [f EXCEPT !.text = Null]
    ELSE [f EXCEPT !.bodyUsed = TRUE, !.text = f.body.text]

\* String(n) of a non-negative integer, one digit per element
RECURSIVE DecimalOf(_)
DecimalOf(n) ==
    IF n < 10 THEN << <<"0","1","2","3","4","5","6","7","8","9">>[n + 1] >>
    ELSE Append(DecimalOf(n \div 10), <<"0","1","2","3","4","5","6","7","8","9">>[(n % 10) + 1])

\* `Upload failed (status ${resp.status})`
MsgUploadFailed(status) == <<"Upload", "failed", "(status">> \o DecimalOf(status) \o <<")">>
MsgFailedToFetch == <<"Failed", "to", "fetch">>

\* useState: file, uploading, result, error
NoUi == [file |-> NoFile, uploading |-> FALSE, error |-> Null, result |-> NullData]

ClientIdle ==
    /\ ui = NoUi
    /\ cpc = "idle"
    /\ sent = 0
    /\ fetched = NoFetched

\* onFileChange
OnFileChange(f) ==
    /\ ui' = [ui EXCEPT !.file = f]
    /\ UNCHANGED <<session, cpc, sent, fetched>>
    /\ UNCHANGED <<uploadVars, signinVars>>

\* OnUpload with a button that stays enabled while uploading: disabled={!file}
OnUploadNeverDisabled(s) ==
    /\ ui.file.present
    /\ pc[s] = "idle"
    /\ ui' = [ui EXCEPT !.uploading = TRUE, !.error = Null, !.result = NullData]
    /\ cpc' = "fetching"
    /\ sent' = s
    /\ fetched' = NoFetched
    /\ pc' = [pc EXCEPT ![s] = "received"]
    /\ req' = [req EXCEPT ![s] = FormRequest(ui.file, session)]
    /\ UNCHANGED <<cfg, table, blobs, rows, local, ret, calls, resp>>
    /\ UNCHANGED session
    /\ UNCHANGED signinVars

\* a click on the button (disabled={!file || uploading}): onUpload up to the
\* await of fetch; the request reaches the server
OnUpload(s) ==
    /\ ui.file.present /\ ~ui.uploading
    /\ pc[s] = "idle"
    /\ ui' = [ui EXCEPT !.uploading = TRUE, !.error = Null, !.result = NullData]
    /\ cpc' = "fetching"
    /\ sent' = s
    /\ fetched' = NoFetched
    /\ pc' = [pc EXCEPT ![s] = "received"]
    /\ req' = [req EXCEPT ![s] = FormRequest(ui.file, session)]
    /\ UNCHANGED <<cfg, table, blobs, rows, local, ret, calls, resp>>
    /\ UNCHANGED session
    /\ UNCHANGED signinVars

\* fetch resolves with the server's response
FetchResolve ==
    /\ cpc = "fetching"
    /\ pc[sent] = "done"
    /\ fetched' = HttpResponse(resp[sent])
    /\ cpc' = "responded"
    /\ UNCHANGED <<session, ui, sent>>
    /\ UNCHANGED <<uploadVars, signinVars>>

\* fetch resolves with the response of an intermediary
FetchGateway(r) ==
    /\ cpc = "fetching"
    /\ fetched' = r
    /\ cpc' = "responded"
    /\ UNCHANGED <<session, ui, sent>>
    /\ UNCHANGED <<uploadVars, signinVars>>

\* fetch rejects: catch (e) { setError(e.message || String(e)) } finally { setUploading(false) }
FetchReject ==
    /\ cpc = "fetching"
    /\ ui' = [ui EXCEPT !.error = MsgFailedToFetch, !.uploading = FALSE]
    /\ cpc' = "idle"
    /\ sent' = 0
    /\ UNCHANGED <<session, fetched>>
    /\ UNCHANGED <<uploadVars, signinVars>>

\* try { data = await resp.json() } catch (e) { text = await resp.text().catch(() => null) }
ReadBody ==
    /\ cpc = "responded"
    /\ fetched' = IF fetched.body.kind = "json" THEN ReadJson(fetched)
                  ELSE ReadText(ReadJson(fetched))
    /\ cpc' = "read"
    /\ UNCHANGED <<session, ui, sent>>
    /\ UNCHANGED <<uploadVars, signinVars>>

\* what the uploader displays for a non-OK response
ErrorText(f) ==
    IF f.data.present /\ Truthy(f.data.error) THEN f.data.error
    ELSE IF Truthy(f.text) THEN f.text
    ELSE MsgUploadFailed(f.status)

\* if (!resp.ok) { setError(...) } else { setResult(data) } finally { setUploading(false) }
ShowOutcome ==
    /\ cpc = "read"
    /\ ui' = IF ~ResponseOk(fetched)
             THEN [ui EXCEPT !.error = ErrorText(fetched), !.uploading = FALSE]
             ELSE [ui EXCEPT !.result = fetched.data, !.uploading = FALSE]
    /\ cpc' = "idle"
    /\ sent' = 0
    /\ UNCHANGED <<session, fetched>>
    /\ UNCHANGED <<uploadVars, signinVars>>

----------------------------------------------------------------------------

SigninIdle ==
    /\ sreq = NoCredentials
    /\ spc = "idle"
    /\ sret = NoSigninRet
    /\ slocal = NoSigninLocal
    /\ scalls = <<>>
    /\ sresp = NoSigninResponse

Init ==
    /\ cfg \in Configs
    /\ table \in Tables
    /\ blobs = {}
    /\ rows = {}
    /\ pc = [s \in Slots |-> "idle"]
    /\ req = [s \in Slots |-> NoRequest]
    /\ local = [s \in Slots |-> NoLocal]
    /\ ret = [s \in Slots |-> NoRet]
    /\ calls = [s \in Slots |-> <<>>]
    /\ resp = [s \in Slots |-> NoResponse]
    /\ SigninIdle
    /\ ClientIdle
    /\ session = NoSession

Next ==
    \/ \E s \in Slots : \E r \in Requests : Receive(s, r)
    \/ \E s \in Slots : HandleUpload(s)
    \/ \E s \in Slots : StorageUpload(s)
    \/ \E s \in Slots : AfterUpload(s)
    \/ \E s \in Slots : DbInsert(s)
    \/ \E s \in Slots : AfterInsert(s)
    \/ Crash

Spec == Init /\ [][Next]_vars

\* One request at a time, under every configuration and with every combination
\* of form fields
AllBodies ==
    { Body(u, o, d) : u \in {Undefined, <<>>, UserId}, o \in {Undefined, <<>>, OrgId},
                      d \in {Undefined, <<>>, Description} }

\* files below, at and above the limits
FileSizes == { 1024, NumberOf(CustomLimit), NumberOf(CustomLimit) + 1, DefaultFileSizeLimit }

AllRequests ==
    { Request(f, b) :
        f \in {NoFile, BigFile} \cup { File(FileName, n) : n \in FileSizes }, b \in AllBodies }

InitOne ==
    /\ cfg \in AllConfigs
    /\ table \in Tables
    /\ blobs = {}
    /\ rows = {}
    /\ pc = [s \in Slots |-> "idle"]
    /\ req = [s \in Slots |-> NoRequest]
    /\ local = [s \in Slots |-> NoLocal]
    /\ ret = [s \in Slots |-> NoRet]
    /\ calls = [s \in Slots |-> <<>>]
    /\ resp = [s \in Slots |-> NoResponse]
    /\ SigninIdle
    /\ ClientIdle
    /\ session = NoSession

NextOne ==
    \/ \E r \in AllRequests : Receive(1, r)
    \/ HandleUpload(1)
    \/ StorageUpload(1)
    \/ AfterUpload(1)
    \/ DbInsert(1)
    \/ AfterInsert(1)
    \/ Crash

SpecOne == InitOne /\ [][NextOne]_vars

\* One request at a time, with every short filename over NameChars and the
\* filename of the specification's example
MaxNameLen == 3
NameChars == {"a", "Z", "7", ".", "-", " ", "/"}

RECURSIVE NamesOfLen(_)
NamesOfLen(n) ==
    IF n = 0 THEN { <<>> }
    ELSE { Append(w, c) : w \in NamesOfLen(n - 1), c \in NameChars }

ExampleName == <<"M", "y", " ", "R", "e", "p", "o", "r", "t", " ", "(", "f", "i", "n", "a", "l", ")", ".", "p", "d", "f">>

KeyNames == UNION { NamesOfLen(n) : n \in 1..MaxNameLen } \cup { ExampleName }

InitKey ==
    /\ cfg = Config(<<"x">>, <<"x">>, Unset, Unset,
                    [SUPABASE_UPLOAD_BUCKET |-> Undefined, SUPABASE_BUCKET |-> Undefined])
    /\ table = SchemaColumns \cup {"uploaded_at"}
    /\ blobs = {}
    /\ rows = {}
    /\ pc = [s \in Slots |-> "idle"]
    /\ req = [s \in Slots |-> NoRequest]
    /\ local = [s \in Slots |-> NoLocal]
    /\ ret = [s \in Slots |-> NoRet]
    /\ calls = [s \in Slots |-> <<>>]
    /\ resp = [s \in Slots |-> NoResponse]
    /\ SigninIdle
    /\ ClientIdle
    /\ session = NoSession

NextKey ==
    \/ /\ pc[1] = "idle"
       /\ \E n \in KeyNames : \E o \in {Undefined, OrgId} :
             Receive(1, Request(File(n, 1024), Body(Undefined, o, Undefined)))
    \/ HandleUpload(1)
    \/ StorageUpload(1)
    \/ AfterUpload(1)
    \/ DbInsert(1)
    \/ AfterInsert(1)
    \/ Crash

SpecKey == InitKey /\ [][NextKey]_vars

\* The sign-in endpoint alone
InitSignin ==
    /\ cfg \in Configs
    /\ table = NoTable
    /\ blobs = {}
    /\ rows = {}
    /\ pc = [s \in Slots |-> "idle"]
    /\ req = [s \in Slots |-> NoRequest]
    /\ local = [s \in Slots |-> NoLocal]
    /\ ret = [s \in Slots |-> NoRet]
    /\ calls = [s \in Slots |-> <<>>]
    /\ resp = [s \in Slots |-> NoResponse]
    /\ SigninIdle
    /\ ClientIdle
    /\ session = NoSession

NextSignin ==
    \/ \E b \in SigninBodies : SigninReceive(b)
    \/ HandleSignin
    \/ SignInServe
    \/ AfterSignIn
    \/ ProfileServe
    \/ AfterProfile
    \/ SigninAgain

SpecSignin == InitSignin /\ [][NextSignin]_vars

\* The browser uploader against the server
InitClient ==
    /\ cfg \in { c \in Configs : c.SUPABASE_KEY # Unset }
    /\ table = SchemaColumns \cup {"uploaded_at"}
    /\ blobs = {}
    /\ rows = {}
    /\ pc = [s \in Slots |-> "idle"]
    /\ req = [s \in Slots |-> NoRequest]
    /\ local = [s \in Slots |-> NoLocal]
    /\ ret = [s \in Slots |-> NoRet]
    /\ calls = [s \in Slots |-> <<>>]
    /\ resp = [s \in Slots |-> NoResponse]
    /\ SigninIdle
    /\ ClientIdle
    /\ session \in Sessions

NextClient ==
    \/ \E f \in ClientFiles : OnFileChange(f)
    \/ \E s \in Slots : OnUpload(s)
    \/ \E s \in Slots : HandleUpload(s)
    \/ \E s \in Slots : StorageUpload(s)
    \/ \E s \in Slots : AfterUpload(s)
    \/ \E s \in Slots : DbInsert(s)
    \/ \E s \in Slots : AfterInsert(s)
    \/ FetchResolve
    \/ \E r \in GatewayResponses : FetchGateway(r)
    \/ FetchReject
    \/ ReadBody
    \/ ShowOutcome

SpecClient == InitClient /\ [][NextClient]_vars

\* The signed-in uploader against the primary project; the continuations of
\* onUpload run once the promise they await has settled
InitClientFair ==
    /\ InitClient
    /\ cfg.SUPABASE_UPLOAD_URL = Unset
    /\ session \in { x \in Sessions : x.present /\ x.access_token = Token }

SpecClientFair ==
    InitClientFair /\ [][NextClient]_vars /\ WF_vars(ReadBody) /\ WF_vars(ShowOutcome)

\* Two requests with the same file and form fields, with and without an
\* Authorization header, before and after a sign-in
AuthHeaders == { Undefined, AuthorizationHeader([NoSession EXCEPT !.present = TRUE, !.access_token = Token]) }

AuthRequests ==
    { [Request(f, b) EXCEPT !.authorization = h] :
        f \in {File(FileName, 1024)},
        b \in {Body(Undefined, Undefined, Undefined), Body(UserId, OrgId, Description)},
        h \in AuthHeaders }

\* no upload is being handled and the second request is still to come
NoUploadInFlight == pc[1] \in {"idle", "done"} /\ pc[2] = "idle"

InitAuth ==
    /\ cfg \in Configs
    /\ table = SchemaColumns \cup {"uploaded_at"}
    /\ blobs = {}
    /\ rows = {}
    /\ pc = [s \in Slots |-> "idle"]
    /\ req = [s \in Slots |-> NoRequest]
    /\ local = [s \in Slots |-> NoLocal]
    /\ ret = [s \in Slots |-> NoRet]
    /\ calls = [s \in Slots |-> <<>>]
    /\ resp = [s \in Slots |-> NoResponse]
    /\ SigninIdle
    /\ ClientIdle
    /\ session = NoSession

NextAuth ==
    \/ /\ spc \in {"idle", "done"}
       /\ \E r \in AuthRequests : Receive(1, r)
    \/ /\ spc \in {"idle", "done"}
       /\ pc[1] # "idle"
       /\ \E h \in AuthHeaders : Receive(2, [req[1] EXCEPT !.authorization = h])
    \/ \E s \in Slots : HandleUpload(s)
    \/ \E s \in Slots : StorageUpload(s)
    \/ \E s \in Slots : AfterUpload(s)
    \/ \E s \in Slots : DbInsert(s)
    \/ \E s \in Slots : AfterInsert(s)
    \/ /\ NoUploadInFlight
       /\ SigninReceive(Credentials(<<"a", "@", "x">>, <<"p", "w">>))
    \/ HandleSignin
    \/ SignInServe
    \/ AfterSignIn
    \/ ProfileServe
    \/ AfterProfile

SpecAuth == InitAuth /\ [][NextAuth]_vars

\* The browser uploader after a sign-in: every request comes from the uploader
InitSession ==
    /\ cfg \in { c \in Configs : c.SUPABASE_KEY # Unset }
    /\ table = SchemaColumns \cup {"uploaded_at"}
    /\ blobs = {}
    /\ rows = {}
    /\ pc = [s \in Slots |-> "idle"]
    /\ req = [s \in Slots |-> NoRequest]
    /\ local = [s \in Slots |-> NoLocal]
    /\ ret = [s \in Slots |-> NoRet]
    /\ calls = [s \in Slots |-> <<>>]
    /\ resp = [s \in Slots |-> NoResponse]
    /\ SigninIdle
    /\ ClientIdle
    /\ session \in Sessions

NextSession ==
    \/ /\ ~ui.file.present
       /\ SigninReceive(Credentials(<<"a", "@", "x">>, <<"p", "w">>))
    \/ HandleSignin
    \/ SignInServe
    \/ AfterSignIn
    \/ ProfileServe
    \/ AfterProfile
    \/ /\ spc \in {"idle", "done"}
       /\ ~ui.file.present
       /\ OnFileChange(File(FileName, 1024))
    \/ \E s \in Slots : OnUpload(s)
    \/ \E s \in Slots : HandleUpload(s)
    \/ \E s \in Slots : StorageUpload(s)
    \/ \E s \in Slots : AfterUpload(s)
    \/ \E s \in Slots : DbInsert(s)
    \/ \E s \in Slots : AfterInsert(s)
    \/ FetchResolve
    \/ ReadBody
    \/ ShowOutcome

SpecSession == InitSession /\ [][NextSession]_vars

----------------------------------------------------------------------------
(* Observations used by the claims *)

Served(s) == pc[s] = "done"

\* the i-th store call of slot s, when it was issued
Issued(s, i) == i <= Len(calls[s])
UploadOf(s) == calls[s][1]
InsertOf(s) == calls[s][2]

RowAt(bucket, key) == \E r \in rows : r.bucket = bucket /\ r.storage_path = key

----------------------------------------------------------------------------
(* C1: every metadata row's storage_path is the key of a blob whose write    *)
(* completed successfully before the row was inserted: a step that adds a    *)
(* row finds the blob under the row's bucket and key already in the store,   *)
(* written by an upload call that was answered without error, and in every   *)
(* state each row's blob is in the store.                                    *)
C1_BlobBeforeRow ==
    /\ [](\A r \in rows : BlobExists(r.bucket, r.storage_path))
    /\ [][\A r \in rows' \ rows :
            /\ BlobExists(r.bucket, r.storage_path)
            /\ \E s \in Slots :
                 /\ Issued(s, 2)
                 /\ UploadOf(s).op = "upload"
                 /\ UploadOf(s).key = r.storage_path
                 /\ UploadOf(s).bucket = r.bucket
                 /\ UploadOf(s).result.kind = "ok"
                 /\ InsertOf(s).row = r]_vars

\* a row exists while another request's blob write failed and left no row
C1_Witness ==
    \E s, t \in Slots :
        /\ Served(s) /\ resp[s].success
        /\ RowAt(local[s].bucket, local[s].storagePath)
        /\ Served(t) /\ Len(calls[t]) = 1 /\ UploadOf(t).result.kind = "error"
        /\ ~RowAt(UploadOf(t).bucket, UploadOf(t).key)

----------------------------------------------------------------------------
(* C2: a request without a file part is answered 400 'file is required',     *)
(* whatever its form fields and the configuration, and its handler issues no *)
(* blob write and no metadata insert at any point.                           *)
C2_NoFileIs400 ==
    \A s \in Slots :
        (pc[s] # "idle" /\ ~req[s].file.present) =>
            /\ calls[s] = <<>>
            /\ blobs = {} /\ rows = {}
            /\ Served(s) =>
                 /\ resp[s].status = 400
                 /\ resp[s].type = "json"
                 /\ resp[s].error = <<"file", "is", "required">>
                 /\ ~resp[s].success

\* a request with form fields and no file was answered by a server without a key
C2_Witness ==
    \E s \in Slots :
        /\ Served(s) /\ ~req[s].file.present
        /\ req[s].body.org_id = OrgId /\ req[s].body.user_id = UserId
        /\ cfg.SUPABASE_KEY = Unset
        /\ resp[s].status = 400

----------------------------------------------------------------------------
(* C3: when the blob write returns an error the handler aborts: it issues no *)
(* metadata insert, so the table is unchanged by the request, and it answers *)
(* 500 with the blob store's error message, or with the string form of the   *)
(* error when the error carries no message.                                  *)
C3_UploadErrorAborts ==
    \A s \in Slots :
        (Issued(s, 1) /\ UploadOf(s).result.kind = "error") =>
            /\ Len(calls[s]) = 1
            /\ pc[s] \in {"uploadReturned", "done", "crashed"}
            /\ Served(s) =>
                 /\ resp[s].status = 500
                 /\ resp[s].type = "json"
                 /\ resp[s].error = IF UploadOf(s).result.message # <<>>
                                    THEN UploadOf(s).result.message
                                    ELSE UploadOf(s).result.string
                 /\ ~resp[s].success

\* C3 as stated: the response always carries the blob store's error message
C3_ReportsStoreMessage ==
    \A s \in Slots :
        (Issued(s, 1) /\ UploadOf(s).result.kind = "error") =>
            /\ Len(calls[s]) = 1
            /\ Served(s) =>
                 /\ resp[s].status = 500
                 /\ resp[s].error = UploadOf(s).result.message

\* one request was answered with the store's message, another with the string
\* form of an error without a message
C3_Witness ==
    \E s, t \in Slots :
        /\ Served(s) /\ Issued(s, 1)
        /\ UploadOf(s).result.kind = "error"
        /\ resp[s].error = <<"Bucket", "not", "found">>
        /\ Served(t) /\ Issued(t, 1)
        /\ UploadOf(t).result.kind = "error" /\ UploadOf(t).result.message = <<>>
        /\ resp[t].error = <<"StorageUnknownError">>

----------------------------------------------------------------------------
\* the index of the last "/" of a key
LastSlash(key) == CHOOSE i \in 1..Len(key) : key[i] = "/" /\ \A j \in (i+1)..Len(key) : key[j] # "/"

(* C4: a success response carries the identifier embedded in the storage key *)
(* ({scope}/{document_id}_{name}) and the key passed to the blob write, and  *)
(* a metadata row with that document_id, storage_path and bucket exists.     *)
C4_SuccessMatchesStores ==
    \A s \in Slots :
        (Served(s) /\ resp[s].success) =>
            LET key == UploadOf(s).key
                id == resp[s].document_id
                i == LastSlash(key)
            IN /\ resp[s].status = 200
               /\ Len(calls[s]) = 2
               /\ resp[s].storage_path = key
               /\ resp[s].bucket = UploadOf(s).bucket
               /\ SubSeq(key, i + 1, i + Len(id)) = id
               /\ key[i + Len(id) + 1] = "_"
               /\ Len(key) - (i + Len(id) + 1) = Len(req[s].file.originalname)
               /\ BlobExists(resp[s].bucket, key)
               /\ \E r \in rows :
                    /\ r.document_id = id
                    /\ r.storage_path = resp[s].storage_path
                    /\ r.bucket = resp[s].bucket

\* an upload into an organization's scope was answered with success
C4_Witness ==
    \E s \in Slots :
        /\ Served(s) /\ resp[s].success
        /\ req[s].body.org_id = OrgId
        /\ rows # {}

----------------------------------------------------------------------------
\* the blob of slot s was written and its insert failed or was never served
Orphaned(s) ==
    /\ Issued(s, 1) /\ UploadOf(s).result.kind = "ok"
    /\ \/ Served(s) /\ Issued(s, 2) /\ InsertOf(s).result.kind \in {"error", "throw"}
       \/ pc[s] = "crashed" /\ (Issued(s, 2) => InsertOf(s).result.kind = "none")

(* C5: after a successful blob write, a failed metadata insert is answered   *)
(* 500 with an error and nothing is deleted or retried: the handler issued   *)
(* the upload and the insert and no other call, the blob is in the store and *)
(* no row references it; a process stop between the phases leaves the same.  *)
C5_OrphanedBlobStays ==
    \A s \in Slots :
        Orphaned(s) =>
            /\ BlobExists(UploadOf(s).bucket, UploadOf(s).key)
            /\ ~RowAt(UploadOf(s).bucket, UploadOf(s).key)
            /\ Len(calls[s]) <= 2
            /\ UploadOf(s).op = "upload"
            /\ Issued(s, 2) => InsertOf(s).op = "insert"
            /\ Served(s) =>
                 /\ resp[s].status = 500
                 /\ resp[s].type = "json"
                 /\ Truthy(resp[s].error)
                 /\ ~resp[s].success

\* one request's insert failed and another stopped between the phases
C5_Witness ==
    \E s, t \in Slots :
        /\ Orphaned(s) /\ Served(s)
        /\ Orphaned(t) /\ pc[t] = "crashed"

----------------------------------------------------------------------------
(* C6: a failed insert is answered 500; when the store's message contains    *)
(* 'Could not find the table' the error text is the provisioning instruction *)
(* and not the store's message, otherwise it is 'uploaded but failed to      *)
(* persist metadata: ' followed by the store's message, or by the string     *)
(* form of the error when the error carries no message.                      *)
C6_InsertErrorText ==
    \A s \in Slots :
        (Served(s) /\ Issued(s, 2) /\ InsertOf(s).result.kind = "error") =>
            LET m == InsertOf(s).result.message
            IN /\ resp[s].status = 500
               /\ resp[s].type = "json"
               /\ IF Includes(m, <<"Could", "not", "find", "the", "table">>)
                  THEN /\ resp[s].error = MsgTableHint
                       /\ resp[s].error # m
                       /\ ~Includes(resp[s].error, m)
                  ELSE resp[s].error =
                         <<"uploaded", "but", "failed", "to", "persist", "metadata:">>
                            \o (IF m # <<>> THEN m ELSE InsertOf(s).result.string)

\* C6 as stated: every other insert error is answered with the prefix followed
\* by the store's message
C6_PrefixThenStoreMessage ==
    \A s \in Slots :
        (Served(s) /\ Issued(s, 2) /\ InsertOf(s).result.kind = "error") =>
            LET m == InsertOf(s).result.message
            IN /\ resp[s].status = 500
               /\ IF Includes(m, <<"Could", "not", "find", "the", "table">>)
                  THEN resp[s].error = MsgTableHint /\ resp[s].error # m
                  ELSE resp[s].error =
                         <<"uploaded", "but", "failed", "to", "persist", "metadata:">> \o m

\* one insert found no table and another failed for a different reason
C6_Witness ==
    \E s, t \in Slots :
        /\ Served(s) /\ Issued(s, 2) /\ InsertOf(s).result.message = MsgNoTable
        /\ Served(t) /\ Issued(t, 2) /\ InsertOf(t).result.message = MsgDenied

----------------------------------------------------------------------------
\* the filename segment of the key of slot s: what follows '{documentId}_'
NameSegment(s) ==
    LET key == UploadOf(s).key
    IN SubSeq(key, LastSlash(key) + Len(local[s].docId) + 2, Len(key))

(* C7: the filename segment of the storage key has the length of the         *)
(* original filename, keeps each of its characters of [A-Za-z0-9._-] in      *)
(* place and has '_' for every other, so it holds only characters of that    *)
(* class; sanitizing it again changes nothing; 'My Report (final).pdf'       *)
(* becomes 'My_Report__final_.pdf'.                                          *)
C7_Sanitized ==
    \A s \in Slots :
        Issued(s, 1) =>
            LET name == req[s].file.originalname
                seg == NameSegment(s)
            IN /\ Len(seg) = Len(name)
               /\ \A i \in 1..Len(name) :
                    /\ seg[i] \in Lower \cup Upper \cup Digit \cup {".", "_", "-"}
                    /\ seg[i] = IF name[i] \in Lower \cup Upper \cup Digit \cup {".", "_", "-"}
                                THEN name[i] ELSE "_"
               /\ SafeName(seg) = seg
               /\ seg = local[s].safeName
               /\ name = ExampleName => seg = <<"M", "y", "_", "R", "e", "p", "o", "r", "t", "_", "_", "f", "i", "n", "a", "l", "_", ".", "p", "d", "f">>

\* the example's file was keyed under its organization
C7_Witness ==
    \E s \in Slots :
        /\ Issued(s, 1)
        /\ req[s].file.originalname = ExampleName
        /\ UploadOf(s).key = OrgsPrefix \o OrgId \o <<"/">> \o local[s].docId \o <<"_">> \o <<"M", "y", "_", "R", "e", "p", "o", "r", "t", "_", "_", "f", "i", "n", "a", "l", "_", ".", "p", "d", "f">>

----------------------------------------------------------------------------
(* C8: the storage key is 'orgs/{orgId}/{documentId}_{sanitizedFilename}'    *)
(* when the form supplied a non-empty org_id and                             *)
(* 'uploads/{documentId}_{sanitizedFilename}' otherwise; without an org_id   *)
(* the key is never under 'orgs/' and the inserted row's org_id is null.     *)
C8_KeyScope ==
    \A s \in Slots :
        Issued(s, 1) =>
            LET org == req[s].body.org_id
                key == UploadOf(s).key
                tail == local[s].docId \o <<"_">> \o SafeName(req[s].file.originalname)
            IN IF org # Undefined /\ org # <<>>
               THEN /\ key = <<"o","r","g","s","/">> \o org \o <<"/">> \o tail
                    /\ Issued(s, 2) => InsertOf(s).row.org_id = org
               ELSE /\ key = <<"u","p","l","o","a","d","s","/">> \o tail
                    /\ SubSeq(key, 1, 5) # <<"o","r","g","s","/">>
                    /\ Issued(s, 2) => InsertOf(s).row.org_id = Null

\* a row was stored for an upload with an empty org_id, and one for an organization
C8_Witness ==
    \E s, t \in Slots :
        /\ req[s].body.org_id = <<>> /\ Issued(s, 2) /\ InsertOf(s).row \in rows
        /\ req[t].body.org_id = OrgId /\ Issued(t, 2) /\ InsertOf(t).row \in rows

----------------------------------------------------------------------------
(* C9: every field of the record inserted in phase 2 is a column of the      *)
(* table the repository's SQL creates, so that the table accepts the insert. *)
C9_RowFitsSchema ==
    \A s \in Slots :
        Issued(s, 2) =>
            /\ DOMAIN InsertOf(s).row \subseteq SchemaColumns
            /\ table = SchemaColumns =>
                  \A col \in DOMAIN InsertOf(s).row :
                      InsertOf(s).result.message # MsgNoColumn(col)

----------------------------------------------------------------------------
(* C10: a sign-in request whose body lacks email or password, or has an      *)
(* empty value for either, is answered 400, and neither the identity         *)
(* provider nor the UserProfiles table is called for it.                     *)
C10_MissingCredentialsIs400 ==
    (spc # "idle" /\ (sreq.email \in {Undefined, <<>>} \/ sreq.password \in {Undefined, <<>>})) =>
        /\ scalls = <<>>
        /\ spc \in {"received", "done"}
        /\ spc = "done" =>
             /\ sresp.status = 400
             /\ sresp.type = "json"
             /\ ~sresp.success

\* a request with an email and an empty password was answered 400
C10_Witness ==
    /\ spc = "done"
    /\ sreq.email \in Emails /\ sreq.password = <<>>
    /\ sresp.status = 400
    /\ scalls = <<>>

----------------------------------------------------------------------------
\* the i-th call of the sign-in handler, when it was issued
SigninIssued(i) == i <= Len(scalls)
SignInOf == scalls[1]
ProfileOf == scalls[2]

(* C11: when the identity provider answers the credentials with an error,    *)
(* the sign-in handler issues no UserProfiles lookup and answers 401 with    *)
(* the provider's message, or with the string form of the error when the     *)
(* error carries no message; the response carries no user and no org_id.     *)
C11_RejectedIs401 ==
    (SigninIssued(1) /\ SignInOf.result.kind = "error") =>
        /\ Len(scalls) = 1
        /\ spc \in {"signInReturned", "done"}
        /\ spc = "done" =>
             /\ sresp.status = 401
             /\ sresp.type = "json"
             /\ sresp.error = IF SignInOf.result.message # <<>>
                              THEN SignInOf.result.message
                              ELSE SignInOf.result.string
             /\ ~sresp.success
             /\ sresp.user = [id |-> Undefined, email |-> Undefined]
             /\ sresp.org_id = Undefined

\* C11 as stated: the error of the response is always the provider's message
C11_ReportsProviderMessage ==
    (SigninIssued(1) /\ SignInOf.result.kind = "error") =>
        /\ Len(scalls) = 1
        /\ spc = "done" =>
             /\ sresp.status = 401
             /\ sresp.error = SignInOf.result.message

\* rejected credentials were answered 401 with the provider's message
C11_Witness ==
    /\ spc = "done"
    /\ SigninIssued(1) /\ SignInOf.result.kind = "error"
    /\ sresp.status = 401
    /\ sresp.error = <<"Invalid", "login", "credentials">>

----------------------------------------------------------------------------
(* C12: after a successful authentication, an org_id in the user's metadata  *)
(* is returned and no UserProfiles lookup is issued; without one, exactly    *)
(* one lookup is issued, for the row whose id is the user's id, and its      *)
(* org_id is returned; when the lookup returns no row, a row without org_id  *)
(* or an error, the response is still 200 with org_id null.  (A lookup that  *)
(* throws is an exception, not a lookup without an org_id.)                  *)
C12_OrgResolution ==
    (SigninIssued(1) /\ SignInOf.result.kind = "ok") =>
        LET user == SignInOf.result.user
            meta == user.user_metadata.org_id
            signedIn == /\ sresp.status = 200 /\ sresp.type = "json" /\ sresp.success
                        /\ sresp.error = Undefined
                        /\ sresp.user = [id |-> user.id, email |-> user.email]
        IN IF meta \notin {Undefined, Null, <<>>}
           THEN /\ Len(scalls) = 1
                /\ spc = "done" => signedIn /\ sresp.org_id = meta
           ELSE /\ Len(scalls) <= 2
                /\ spc = "done" => Len(scalls) = 2
                /\ SigninIssued(2) =>
                     /\ ProfileOf.op = "select" /\ ProfileOf.table = "UserProfiles"
                     /\ ProfileOf.columns = <<"org_id">>
                     /\ ProfileOf.id = user.id
                /\ (spc = "done" /\ ProfileOf.result.kind # "throw") =>
                     /\ signedIn
                     /\ sresp.org_id =
                          IF /\ ProfileOf.result.kind = "ok"
                             /\ ProfileOf.result.profile.found
                             /\ ProfileOf.result.profile.org_id \notin {Undefined, Null, <<>>}
                          THEN ProfileOf.result.profile.org_id
                          ELSE Null

\* a sign-in whose lookup failed was answered 200 with org_id null
C12_Witness ==
    /\ spc = "done"
    /\ SigninIssued(2)
    /\ SignInOf.result.kind = "ok"
    /\ ProfileOf.result.kind = "error"
    /\ sresp.status = 200 /\ sresp.org_id = Null

----------------------------------------------------------------------------
\* the file of slot s is larger than the configured maximum
Oversized(s) ==
    /\ req[s].file.present
    /\ req[s].file.size >
         (IF cfg.MAX_FILE_SIZE_BYTES = <<"2", "0", "4", "8">> THEN 2048 ELSE 52428800)

(* C13: an upload whose file is larger than MAX_FILE_SIZE_BYTES (50 MiB when *)
(* the variable is not set or empty) never reaches the handler body: no      *)
(* local is computed, no blob write and no insert is issued, nothing is      *)
(* stored, and the response is not a success.                                *)
C13_OversizeNeverStored ==
    \A s \in Slots :
        (pc[s] # "idle" /\ Oversized(s)) =>
            /\ calls[s] = <<>>
            /\ local[s] = NoLocal
            /\ blobs = {} /\ rows = {}
            /\ ~resp[s].success
            /\ Served(s) => resp[s].status >= 400

\* a file one byte over a configured maximum of 2048 was rejected
C13_Witness ==
    \E s \in Slots :
        /\ Served(s)
        /\ cfg.MAX_FILE_SIZE_BYTES = <<"2", "0", "4", "8">>
        /\ req[s].file.size = 2049
        /\ calls[s] = <<>>
        /\ ~resp[s].success

----------------------------------------------------------------------------
(* C14: an upload over the size bound is answered with a 4xx status, which   *)
(* no store error and no exception is answered with.                         *)
C14_OversizeIs4xx ==
    \A s \in Slots :
        (Served(s) /\ Oversized(s)) =>
            resp[s].status \in 400..499

----------------------------------------------------------------------------
(* C15: every response to a failed upload or sign-in request is a JSON body  *)
(* with an error field and an HTTP error status.                             *)
C15_FailuresAreJson ==
    /\ \A s \in Slots :
         (Served(s) /\ ~resp[s].success) =>
             /\ resp[s].type = "json"
             /\ Truthy(resp[s].error)
             /\ resp[s].status \in 400..599
    /\ (spc = "done" /\ ~sresp.success) =>
             /\ sresp.type = "json"
             /\ Truthy(sresp.error)
             /\ sresp.status \in 400..599

----------------------------------------------------------------------------
(* C16: two concurrent uploads whose generated identifiers differ have       *)
(* different storage keys and different record identifiers, whatever their   *)
(* user, organization and filename; neither one's blob write is refused for  *)
(* an existing key nor its insert for a duplicate identifier, and what each  *)
(* has stored stays in the stores as it wrote it.                            *)
C16_DistinctIdsNeverCollide ==
    \A s, t \in Slots :
        (s # t /\ Issued(s, 1) /\ Issued(t, 1) /\ local[s].docId # local[t].docId) =>
            /\ UploadOf(s).key # UploadOf(t).key
            /\ ~UploadOf(s).upsert
            /\ UploadOf(s).result.message # <<"The", "resource", "already", "exists">>
            /\ UploadOf(s).result.kind = "ok" =>
                 [ bucket |-> UploadOf(s).bucket, key |-> UploadOf(s).key,
                   contentType |-> UploadOf(s).contentType, size |-> UploadOf(s).size ] \in blobs
            /\ Issued(s, 2) =>
                 /\ Issued(t, 2) => InsertOf(s).row.document_id # InsertOf(t).row.document_id
                 /\ InsertOf(s).result.message #
                      <<"duplicate", "key", "value", "violates", "unique", "constraint">>
                 /\ InsertOf(s).result.kind = "ok" => InsertOf(s).row \in rows

\* two uploads of the same file by the same user into the same organization
\* were both stored
C16_Witness ==
    \E s, t \in Slots :
        /\ s # t /\ req[s] = req[t]
        /\ req[s].body.org_id = OrgId /\ req[s].body.user_id = UserId
        /\ local[s].docId # local[t].docId
        /\ Served(s) /\ resp[s].success
        /\ Served(t) /\ resp[t].success

----------------------------------------------------------------------------
\* the server holds the credentials of the project storageClient talks to
StoreConfigured ==
    IF cfg.SUPABASE_UPLOAD_URL # <<>> /\ cfg.SUPABASE_UPLOAD_KEY # <<>>
    THEN TRUE
    ELSE cfg.SUPABASE_URL # <<>> /\ cfg.SUPABASE_KEY # <<>>

(* C17: a request with a file (within the size limit) is answered 500 with   *)
(* an error, without any store call, when the server lacks the credentials   *)
(* of the project it writes to, and is not answered 'server not configured   *)
(* for uploads' when it holds them.                                          *)
C17_RejectedIffStoreUnconfigured ==
    \A s \in Slots :
        (Served(s) /\ req[s].file.present /\ ~Oversized(s)) =>
            IF StoreConfigured
            THEN /\ resp[s].error # <<"server", "not", "configured", "for", "uploads">>
                 /\ Issued(s, 1)
            ELSE /\ resp[s].status = 500 /\ resp[s].type = "json" /\ Truthy(resp[s].error)
                 /\ calls[s] = <<>>

----------------------------------------------------------------------------
\* no request is in flight and none was abandoned
Quiescent == \A s \in Slots : pc[s] \in {"idle", "done"}

(* C18: once every request has been answered, the table holds as many rows   *)
(* as uploads were answered with success; at any time each upload answered   *)
(* with success has exactly one row, with its document_id; and no step       *)
(* removes or changes a row or a blob.                                       *)
C18_OneRowPerSuccess ==
    /\ [](\A s \in Slots :
            (Served(s) /\ resp[s].success) =>
                Cardinality({ r \in rows : r.document_id = resp[s].document_id }) = 1)
    /\ [](Quiescent =>
            Cardinality(rows) = Cardinality({ s \in Slots : Served(s) /\ resp[s].success }))
    /\ [][rows \subseteq rows' /\ blobs \subseteq blobs']_vars

\* two uploads were answered with success and the table holds two rows
C18_Witness ==
    /\ Quiescent
    /\ \A s \in Slots : Served(s) /\ resp[s].success
    /\ Cardinality(rows) = 2
    /\ Cardinality(blobs) = 2

----------------------------------------------------------------------------
\* the uploader has displayed the outcome of a non-OK response
ShownFailure ==
    /\ cpc = "idle"
    /\ fetched.status # 0
    /\ fetched.status \notin 200..299

(* C19: for a non-OK response the uploader's error is the error string of    *)
(* the JSON body when the body is JSON with an error member; the text of the *)
(* body when the body is not JSON; and 'Upload failed (status N)' only when  *)
(* the body is not JSON and has no text.                                     *)
C19_ErrorThenTextThenGeneric ==
    ShownFailure =>
        LET body == fetched.body
        IN IF body.kind = "json"
           THEN body.data.error \notin {Undefined, Null, <<>>} => ui.error = body.data.error
           ELSE IF body.text # <<>>
           THEN ui.error = body.text
           ELSE ui.error = <<"Upload", "failed", "(status">> \o DecimalOf(fetched.status) \o <<")">>

----------------------------------------------------------------------------
\* the scope prefix of a storage key: the key up to its last '/'
Scope(key) == SubSeq(key, 1, LastSlash(key))

\* the fields of a row other than the generated identifier, the key and the time
RowFields(row) ==
    [ user_id |-> row.user_id, org_id |-> row.org_id, filename |-> row.filename,
      bucket |-> row.bucket, content_type |-> row.content_type,
      size_bytes |-> row.size_bytes, description |-> row.description ]

\* what the stores answered to the calls of slot s
Answers(s) == [i \in 1..Len(calls[s]) |-> calls[s][i].result]

(* C20: two upload requests with the same file part and the same form fields *)
(* user_id, org_id and description, with or without an Authorization header  *)
(* and before or after a sign-in, compute the same values, write under the   *)
(* same scope, insert rows with the same fields apart from identifier, key   *)
(* and time, and, given the same answers of the stores, send the same status *)
(* and error; the row's user_id and org_id are the form's (null when the     *)
(* field is missing or empty), never the signed-in user's.                   *)
C20_AuthorizationIgnored ==
    /\ \A s, t \in Slots :
         (req[s].file = req[t].file /\ req[s].body = req[t].body) =>
            /\ (Issued(s, 1) /\ Issued(t, 1)) =>
                 /\ Scope(UploadOf(s).key) = Scope(UploadOf(t).key)
                 /\ UploadOf(s).bucket = UploadOf(t).bucket
                 /\ UploadOf(s).client = UploadOf(t).client
                 /\ [local[s] EXCEPT !.docId = <<>>, !.storagePath = <<>>]
                      = [local[t] EXCEPT !.docId = <<>>, !.storagePath = <<>>]
            /\ (Issued(s, 2) /\ Issued(t, 2)) =>
                 RowFields(InsertOf(s).row) = RowFields(InsertOf(t).row)
            /\ (Served(s) /\ Served(t) /\ Answers(s) = Answers(t)) =>
                 /\ resp[s].status = resp[t].status
                 /\ resp[s].error = resp[t].error
                 /\ resp[s].success = resp[t].success
    /\ \A s \in Slots :
         Issued(s, 2) =>
            /\ InsertOf(s).row.user_id =
                 IF req[s].body.user_id \in {Undefined, <<>>} THEN Null ELSE req[s].body.user_id
            /\ InsertOf(s).row.org_id =
                 IF req[s].body.org_id \in {Undefined, <<>>} THEN Null ELSE req[s].body.org_id

\* after a sign-in that resolved an organization, a request without form
\* fields and without a header, and the same request with a bearer token, were
\* both stored
C20_Witness ==
    /\ spc = "done" /\ sresp.success /\ sresp.org_id \notin {Undefined, Null}
    /\ req[1].body = Body(Undefined, Undefined, Undefined)
    /\ req[1].file = req[2].file /\ req[1].body = req[2].body
    /\ req[1].authorization = Undefined
    /\ req[2].authorization # Undefined
    /\ Served(1) /\ resp[1].success
    /\ Served(2) /\ resp[2].success
    /\ InsertOf(2).row.org_id = Null

----------------------------------------------------------------------------
----------------------------------------------------------------------------
\* a step in which the browser submits a request
Submits == \E s \in Slots : pc[s] = "idle" /\ pc'[s] = "received"

(* C22: an upload starts only with a file selected and with uploading false  *)
(* (the button is disabled otherwise), and the step sets uploading and       *)
(* clears error and result; uploading is true exactly while onUpload is      *)
(* running, so no second request is submitted while one is in flight; every  *)
(* step that ends onUpload (a shown response of any kind, a rejected fetch)  *)
(* sets uploading to false, and once a response has arrived uploading does   *)
(* become false; error and result are never both set.                        *)
C22_UploadingLifecycle ==
    /\ [](ui.uploading <=> cpc # "idle")
    /\ []((cpc = "idle") <=> (sent = 0))
    /\ [](ui.error = Null \/ ui.result = NullData)
    /\ [][Submits =>
            /\ ui.file.present
            /\ ~ui.uploading /\ sent = 0
            /\ ui'.uploading /\ sent' # 0
            /\ ui'.error = Null /\ ui'.result = NullData]_vars
    /\ [][(ui.uploading /\ ~ui'.uploading) =>
            /\ cpc \in {"fetching", "read"} /\ cpc' = "idle"
            /\ (ui'.error # Null) # (ui'.result # NullData) \/ fetched.status \in 200..299]_vars
    /\ (cpc = "responded") ~> (~ui.uploading)

\* a second upload is running, with error and result cleared, after a first
\* one that the server answered with an error
C22_Witness ==
    /\ ui.uploading /\ cpc = "fetching"
    /\ ui.error = Null /\ ui.result = NullData
    /\ \E s \in Slots : Served(s) /\ ~resp[s].success /\ sent # s /\ sent # 0

====
